---- MODULE Spec2Model ----
(***************************************************************************)
(* A model of condic.py, a lookup tool for PDIC one-line dictionaries.     *)
(*                                                                         *)
(* Text is a sequence of characters.  An ASCII character is the one-letter *)
(* string of itself; a letter outside ASCII carries its HTML entity name   *)
(* ("ccirc" is U+0109, "Ccirc" is U+0108, "aacute" is U+00E1, "iquest" is  *)
(* U+00BF, ...), since module text is ASCII.                               *)
(***************************************************************************)
EXTENDS Integers, Sequences, FiniteSets, TLC

VARIABLES
    pc,       \* where the running program stands
    call,     \* the arguments of the (latest) call of lookup
    words,    \* lookup: its local words, composed and normalized
    regexs,   \* lookup: the compiled patterns (as their pattern texts)
    pos,      \* lookup: the number of dictionary lines read so far
    found,    \* lookup: its counter found
    results,  \* lookup: its counter results
    out,      \* the lines printed to the output file so far
    exc,      \* the exception that ended the program ("" when none)
    args,     \* main: the command line, as docopt returns it
    lang,     \* main: its variable lang
    opts,     \* main: its dict opts
    text      \* main: the line input() returned; a text transform: its text

vars == <<pc, call, words, regexs, pos, found, results, out, exc, args, lang, opts, text>>

-----------------------------------------------------------------------------
(* Characters *)

UpperCase ==
    <<"A", "B", "C", "D", "E", "F", "G", "H", "I", "J", "K", "L", "M", "N",
      "O", "P", "Q", "R", "S", "T", "U", "V", "W", "X", "Y", "Z",
      "Ccirc", "Gcirc", "Hcirc", "Jcirc", "Scirc", "Ubreve",
      "Aacute", "Eacute", "Iacute", "Oacute", "Uacute", "Uuml", "Ntilde">>

LowerCase ==
    <<"a", "b", "c", "d", "e", "f", "g", "h", "i", "j", "k", "l", "m", "n",
      "o", "p", "q", "r", "s", "t", "u", "v", "w", "x", "y", "z",
      "ccirc", "gcirc", "hcirc", "jcirc", "scirc", "ubreve",
      "aacute", "eacute", "iacute", "oacute", "uacute", "uuml", "ntilde">>

Digits == <<"0", "1", "2", "3", "4", "5", "6", "7", "8", "9">>

Range(f) == {f[i] : i \in DOMAIN f}

IndexOf(f, c) == CHOOSE i \in DOMAIN f : f[i] = c

\* str.lower() of one character
LowerChar(c) == IF c \in Range(UpperCase) THEN LowerCase[IndexOf(UpperCase, c)] ELSE c

\* str.lower()
Lower(s) == [i \in DOMAIN s |-> LowerChar(s[i])]

\* what the regular-expression class \w holds
IsWordChar(c) ==
    c \in Range(UpperCase) \cup Range(LowerCase) \cup Range(Digits) \cup {"_"}

\* str.isspace() of one character, as str.strip()/rstrip()/split() use it
IsSpace(c) == c \in {" ", "\t", "\n", "\r"}

-----------------------------------------------------------------------------
(* Operations of str *)

\* s[i:j] with 0 <= i, in Python's half-open, zero-based indexing
Slice(s, i, j) == SubSeq(s, i + 1, IF j > Len(s) THEN Len(s) ELSE j)

\* s.startswith(f), at zero-based offset i
StartsAt(s, f, i) ==
    /\ i + Len(f) <= Len(s)
    /\ \A k \in 1..Len(f) : s[i + k] = f[k]

\* s.replace(f, t) for a non-empty f: the non-overlapping occurrences of f,
\* found from left to right, are replaced by t
RECURSIVE Replace(_, _, _)
Replace(s, f, t) ==
    IF Len(s) < Len(f) THEN s
    ELSE IF StartsAt(s, f, 0) THEN t \o Replace(Slice(s, Len(f), Len(s)), f, t)
    ELSE <<s[1]>> \o Replace(Tail(s), f, t)

\* s.strip(chars), s.lstrip(chars), s.rstrip(chars)
RECURSIVE LStrip(_, _)
LStrip(s, chars) ==
    IF s # <<>> /\ s[1] \in chars THEN LStrip(Tail(s), chars) ELSE s

RECURSIVE RStrip(_, _)
RStrip(s, chars) ==
    IF s # <<>> /\ s[Len(s)] \in chars
    THEN RStrip(SubSeq(s, 1, Len(s) - 1), chars) ELSE s

Strip(s, chars) == RStrip(LStrip(s, chars), chars)

WhiteSpace == {" ", "\t", "\n", "\r"}

\* s.index(c): the zero-based offset of the first c, -1 standing for the
\* ValueError raised when there is none
Index(s, c) ==
    IF \E i \in DOMAIN s : s[i] = c
    THEN (CHOOSE i \in DOMAIN s : s[i] = c /\ \A k \in 1..(i - 1) : s[k] # c) - 1
    ELSE -1

\* s.split(): the maximal runs of non-space characters
RECURSIVE Split(_)
Split(s) ==
    LET t == LStrip(s, WhiteSpace)
        n == IF \E i \in DOMAIN t : IsSpace(t[i])
             THEN Index([i \in DOMAIN t |-> IF IsSpace(t[i]) THEN " " ELSE t[i]], " ")
             ELSE Len(t)
    IN  IF t = <<>> THEN <<>>
        ELSE <<Slice(t, 0, n)>> \o Split(Slice(t, n, Len(t)))

-----------------------------------------------------------------------------
(* translate and the Language classes *)

\* translate(s, from_, to_), from_ and to_ given as from_.split() and
\* to_.split(); zip stops at the shorter list
RECURSIVE translate(_, _, _)
translate(s, from_, to_) ==
    IF from_ = <<>> \/ to_ = <<>> THEN s
    ELSE translate(Replace(s, Head(from_), Head(to_)), Tail(from_), Tail(to_))

\* the Language subclasses, by class name
Classes == {"Bahasa_Indonesia", "English", "Lojban", "Esperanto", "Espanol"}

\* LANG: code -> class, as __init_subclass__ registers iso639_1 and iso639_3
LANG ==
    [c \in {"id", "ind", "en", "eng", "jbo", "eo", "epo", "es", "spa"} |->
        CASE c \in {"id", "ind"} -> "Bahasa_Indonesia"
          [] c \in {"en", "eng"} -> "English"
          [] c = "jbo"           -> "Lojban"
          [] c \in {"eo", "epo"} -> "Esperanto"
          [] c \in {"es", "spa"} -> "Espanol"]

\* the class attribute trans: str.maketrans(from, to) as <<from, to>>
trans(cls) ==
    CASE cls = "Esperanto" ->
            << <<"ccirc", "gcirc", "hcirc", "jcirc", "scirc", "ubreve">>,
               <<"c", "g", "h", "j", "s", "u">> >>
      [] cls = "Espanol" ->
            << <<"aacute", "eacute", "iacute", "oacute", "uacute", "uuml", "ntilde">>,
               <<"a", "e", "i", "o", "u", "u", "n">> >>
      [] OTHER -> << <<>>, <<>> >>

\* Language.asciify: s.translate(type(self).trans)
asciify(cls, s) ==
    LET tr == trans(cls)
    IN  [i \in DOMAIN s |->
            IF s[i] \in Range(tr[1]) THEN tr[2][IndexOf(tr[1], s[i])] ELSE s[i]]

EsperantoAccented ==
    << <<"ccirc">>, <<"gcirc">>, <<"hcirc">>, <<"jcirc">>, <<"scirc">>, <<"ubreve">> >>

\* "c{x} g{x} h{x} j{x} s{x} u{x}".format(x=accent).split()
EsperantoDigraphs(accent) ==
    << <<"c", accent>>, <<"g", accent>>, <<"h", accent>>,
       <<"j", accent>>, <<"s", accent>>, <<"u", accent>> >>

EspanolAccented ==
    << <<"aacute">>, <<"eacute">>, <<"iacute">>, <<"oacute">>, <<"uacute">>,
       <<"uuml">>, <<"ntilde">>, <<"iquest">>, <<"iexcl">> >>

EspanolDigraphs ==
    << <<"a", "'">>, <<"e", "'">>, <<"i", "'">>, <<"o", "'">>, <<"u", "'">>,
       <<"u", ":">>, <<"n", "~">>, <<"?">>, <<"!">> >>

\* decompose of each class (Esperanto with its default accent "^")
decompose(cls, s) ==
    CASE cls = "Esperanto" -> translate(s, EsperantoAccented, EsperantoDigraphs("^"))
      [] cls = "Espanol"   -> translate(s, EspanolAccented, EspanolDigraphs)
      [] OTHER             -> s

\* compose as it would be if it read only the x spelling of the digraphs
composeOnlyX(cls, s) ==
    CASE cls = "Esperanto" -> translate(s, EsperantoDigraphs("x"), EsperantoAccented)
      [] cls = "Espanol"   -> translate(s, EspanolDigraphs, EspanolAccented)
      [] cls = "Lojban"    -> Replace(s, <<"h">>, <<"'">>)
      [] OTHER             -> s

\* compose of each class
compose(cls, s) ==
    CASE cls = "Esperanto" ->
            translate(translate(s, EsperantoDigraphs("^"), EsperantoAccented),
                      EsperantoDigraphs("x"), EsperantoAccented)
      [] cls = "Espanol"   -> translate(s, EspanolDigraphs, EspanolAccented)
      [] cls = "Lojban"    -> Replace(s, <<"h">>, <<"'">>)
      [] OTHER             -> s

\* Bahasa_Indonesia.phonetic_change, in the dict's insertion order
phonetic_change == << <<"k", <<"g">> >>, <<"p", <<"m">> >>, <<"s", <<"n", "y">> >>, <<"t", <<"n">> >> >>

RECURSIVE IndonesiaNormalize(_, _)
IndonesiaNormalize(s, changes) ==
    IF changes = <<>> THEN s
    ELSE LET c == Head(changes)[1]
             d == Head(changes)[2]
         IN  IndonesiaNormalize(
                 Replace(s, <<"*", c>>, <<"*", "(", c, "|">> \o d \o <<")">>),
                 Tail(changes))

\* the words Esperanto.normalize leaves alone
EsperantoKeep ==
    { <<"b", "i", "s">>, <<"c", "i", "s">>, <<"g", "x", "i", "s">>,
      <<"c", "x", "i", "u">>, <<"c", "x", "u">>, <<"d", "u">>, <<"h", "u">>,
      <<"i", "u">>, <<"j", "u">>, <<"p", "l", "u">>, <<"k", "i", "u">>,
      <<"m", "u">>, <<"n", "e", "n", "i", "u">>, <<"u", "n", "u">>,
      <<"n", "u">>, <<"t", "i", "u">>, <<"u">>, <<"j", "x", "u", "s">>,
      <<"m", "i", "n", "u", "s">>, <<"p", "l", "u", "s">> }

Returned(v) == [exc |-> "", val |-> v]

Raised(e) == [exc |-> e, val |-> <<>>]

EsperantoNormalize(s) ==
    IF s = <<>> THEN Raised("IndexError")
    ELSE LET prefix == IF s[1] = "*" THEN <<"*">> ELSE <<>>
             suffix == IF s[Len(s)] = "*" THEN <<"*">> ELSE <<>>
             s1 == Strip(s, {"*"})
             s2 == IF s1 # <<>> /\ s1[Len(s1)] = "u"
                   THEN Slice(s1, 0, Len(s1) - 1) \o <<"i">> ELSE s1
             s3 == IF Len(s2) >= 2 /\ Slice(s2, Len(s2) - 2, Len(s2)) \in
                        { <<"a", "s">>, <<"i", "s">>, <<"o", "s">>, <<"u", "s">> }
                   THEN Slice(s2, 0, Len(s2) - 2) \o <<"i">> ELSE s2
         IN  IF s1 \in EsperantoKeep THEN Returned(prefix \o s1 \o suffix)
             ELSE Returned(prefix \o s3 \o suffix)

\* normalize of each class: the value returned, or the exception raised
normalize(cls, s) ==
    CASE cls = "Esperanto"        -> EsperantoNormalize(s)
      [] cls = "Bahasa_Indonesia" -> Returned(IndonesiaNormalize(s, phonetic_change))
      [] OTHER                    -> Returned(s)

-----------------------------------------------------------------------------
(* The regular expressions of module re, as far as lookup writes them: a   *)
(* pattern is its text; literals, ".", "^", "$", "\w", "\d", an escaped    *)
(* character, a class "[...]" or "[^...]" with ranges, a group "(...)",    *)
(* alternation "|" and the repeats "*", "+", "?".  Matching is by the set  *)
(* of text offsets (0..Len(t)) a match can end at, which decides whether   *)
(* a match exists; re.I folds case.                                        *)

\* the offset of the "]" that closes the class opened at p[k] (0: none);
\* a "]" right after "[" or "[^" is a member of the class
ClassEnd(p, k) ==
    LET first == IF k + 1 <= Len(p) /\ p[k + 1] = "^" THEN k + 3 ELSE k + 2
        ends == {m \in first..Len(p) : p[m] = "]"}
    IN  IF ends = {} THEN 0 ELSE CHOOSE m \in ends : \A n \in ends : m <= n

\* the offset of the ")" that closes a group, scanning from p[k] at depth d
RECURSIVE GroupEnd(_, _, _)
GroupEnd(p, k, d) ==
    IF k > Len(p) THEN 0
    ELSE IF p[k] = "\\" THEN GroupEnd(p, k + 2, d)
    ELSE IF p[k] = "[" /\ ClassEnd(p, k) # 0 THEN GroupEnd(p, ClassEnd(p, k) + 1, d)
    ELSE IF p[k] = "(" THEN GroupEnd(p, k + 1, d + 1)
    ELSE IF p[k] = ")" THEN (IF d = 1 THEN k ELSE GroupEnd(p, k + 1, d - 1))
    ELSE GroupEnd(p, k + 1, d)

\* the first "|" of p[k..j] outside groups and classes (0: none)
RECURSIVE NextBar(_, _, _, _)
NextBar(p, k, j, d) ==
    IF k > j THEN 0
    ELSE IF p[k] = "\\" THEN NextBar(p, k + 2, j, d)
    ELSE IF p[k] = "[" /\ ClassEnd(p, k) # 0 THEN NextBar(p, ClassEnd(p, k) + 1, j, d)
    ELSE IF p[k] = "(" THEN NextBar(p, k + 1, j, d + 1)
    ELSE IF p[k] = ")" THEN NextBar(p, k + 1, j, d - 1)
    ELSE IF p[k] = "|" /\ d = 0 THEN k
    ELSE NextBar(p, k + 1, j, d)

\* the last offset of the atom that starts at p[i]
AtomEnd(p, i) ==
    CASE p[i] = "\\" -> i + 1
      [] p[i] = "("  -> GroupEnd(p, i + 1, 1)
      [] p[i] = "["  -> ClassEnd(p, i)
      [] OTHER       -> i

\* lo <= c <= hi in code point order, for the ranges of digits and letters
InRange(lo, hi, c) ==
    \E tab \in {Digits, SubSeq(LowerCase, 1, 26), SubSeq(UpperCase, 1, 26)} :
        /\ {lo, hi, c} \subseteq Range(tab)
        /\ IndexOf(tab, lo) <= IndexOf(tab, c)
        /\ IndexOf(tab, c) <= IndexOf(tab, hi)

\* c is a member of the class items p[a..b], case folded
InClass(p, a, b, c) ==
    \E k \in a..b :
        \/ /\ k + 2 <= b
           /\ p[k + 1] = "-"
           /\ \/ InRange(p[k], p[k + 2], c)
              \/ InRange(p[k], p[k + 2], LowerChar(c))
        \/ /\ ~(k + 2 <= b /\ p[k + 1] = "-")
           /\ ~(k - 2 >= a /\ p[k - 1] = "-")
           /\ ~(p[k] = "-" /\ a < k /\ k < b)
           /\ LowerChar(p[k]) = LowerChar(c)

\* the one-character atom p[i..e] matches the character c
CharMatch(p, i, e, c) ==
    CASE p[i] = "."  -> c # "\n"
      [] p[i] = "\\" -> (CASE p[e] = "w" -> IsWordChar(c)
                           [] p[e] = "d" -> c \in Range(Digits)
                           [] OTHER      -> LowerChar(p[e]) = LowerChar(c))
      [] p[i] = "["  -> (IF p[i + 1] = "^"
                         THEN ~InClass(p, i + 2, e - 1, c)
                         ELSE InClass(p, i + 1, e - 1, c))
      [] OTHER       -> LowerChar(p[i]) = LowerChar(c)

RECURSIVE MatchAlt(_, _, _, _, _)
RECURSIVE MatchSeq(_, _, _, _, _)
RECURSIVE MatchStar(_, _, _, _, _)

\* the offsets where a match of the atom p[i..e] begun at an offset of S ends
MatchAtom(p, i, e, t, S) ==
    CASE p[i] = "(" -> MatchAlt(p, i + 1, e - 1, t, S)
      [] p[i] = "^" -> S \cap {0}
      [] p[i] = "$" -> {s \in S : s = Len(t) \/ (s = Len(t) - 1 /\ t[Len(t)] = "\n")}
      [] OTHER      -> {s + 1 : s \in {r \in S : r < Len(t) /\ CharMatch(p, i, e, t[r + 1])}}

MatchStar(p, i, e, t, S) ==
    LET S1 == S \cup MatchAtom(p, i, e, t, S)
    IN  IF S1 = S THEN S ELSE MatchStar(p, i, e, t, S1)

MatchSeq(p, i, j, t, S) ==
    IF i > j \/ S = {} THEN S
    ELSE LET e == AtomEnd(p, i)
             q == IF e < j /\ p[e + 1] \in {"*", "+", "?"} THEN p[e + 1] ELSE ""
             S1 == CASE q = "?" -> S \cup MatchAtom(p, i, e, t, S)
                     [] q = "*" -> MatchStar(p, i, e, t, S)
                     [] q = "+" -> MatchStar(p, i, e, t, MatchAtom(p, i, e, t, S))
                     [] OTHER   -> MatchAtom(p, i, e, t, S)
         IN  MatchSeq(p, IF q = "" THEN e + 1 ELSE e + 2, j, t, S1)

MatchAlt(p, i, j, t, S) ==
    LET b == NextBar(p, i, j, 0)
    IN  IF b = 0 THEN MatchSeq(p, i, j, t, S)
        ELSE MatchSeq(p, i, b - 1, t, S) \cup MatchAlt(p, b + 1, j, t, S)

\* re.compile(pat, re.I).search(t) is not None
search(pat, t) == MatchAlt(pat, 1, Len(pat), t, 0..Len(t)) # {}

-----------------------------------------------------------------------------
(* lookup(words, lang, dictionary, encoding, file, **opts)                 *)
(*                                                                         *)
(* Its arguments are a record a: a.words, a.lang, a.dictionary (the lines  *)
(* of the file, each without its line terminator), and the options         *)
(* a.asciify ("lambda" for lambda s: s, else the class whose asciify is    *)
(* passed), a.phrase, a.reverse, a.normalize, a.verbose, a.doublespace.    *)
(* The output file is the sequence of the printed lines.                   *)

\* opts.get("asciify", lambda s: s) applied to s
Asciify(a, s) == IF a.asciify = "lambda" THEN s ELSE asciify(a.asciify, s)

\* lines 197-199: the words lower-cased and composed, then normalized if
\* asked; an exception of normalize ends the call
LookupWords(a) ==
    LET cls == LANG[a.lang]
        composed == [i \in DOMAIN a.words |-> compose(cls, Lower(a.words[i]))]
        normalized == [i \in DOMAIN composed |-> normalize(cls, composed[i])]
    IN  IF ~a.normalize THEN Returned(composed)
        ELSE IF \E i \in DOMAIN normalized : normalized[i].exc # ""
        THEN Raised(normalized[CHOOSE i \in DOMAIN normalized :
                        /\ normalized[i].exc # ""
                        /\ \A k \in 1..(i - 1) : normalized[k].exc = ""].exc)
        ELSE Returned([i \in DOMAIN normalized |-> normalized[i].val])

\* the suffix of the headword pattern: [.]?(,[^/]+)?( #[0-9]+)? /
HeadwordSuffix ==
    <<"[", ".", "]", "?",
      "(", ",", "[", "^", "/", "]", "+", ")", "?",
      "(", " ", "#", "[", "0", "-", "9", "]", "+", ")", "?",
      " ", "/">>

\* Pattern as it would be if "*" stood for one or more word characters
PatternOneOrMore(a, word) ==
    LET pat == Replace(Asciify(a, word), <<"*">>, <<"\\", "w", "+">>)
    IN  IF ~a.reverse
        THEN IF a.phrase THEN pat \o <<" ">>
             ELSE <<"^">> \o pat \o HeadwordSuffix
        ELSE pat

\* lines 200-205: the pattern of one word
Pattern(a, word) ==
    LET pat == Replace(Asciify(a, word), <<"*">>, <<"\\", "w", "*">>)
    IN  IF ~a.reverse
        THEN IF a.phrase THEN pat \o <<" ">>
             ELSE <<"^">> \o pat \o HeadwordSuffix
        ELSE pat

\* Comparison as it would be if reverse searched the headword segment too
ComparisonHeadword(a, line) ==
    IF Index(line, "/") = -1 THEN Raised("ValueError")
    ELSE Returned(Asciify(a, Slice(line, 0, Index(line, "/") + 1)))

\* lines 212-215: the text of a line the patterns are searched in; the
\* line.index("/") of a line without "/" raises ValueError
Comparison(a, line) ==
    IF a.reverse THEN Returned(Asciify(a, line))
    ELSE IF Index(line, "/") = -1 THEN Raised("ValueError")
    ELSE Returned(Asciify(a, Slice(line, 0, Index(line, "/") + 1)))

\* lines 216-219: how many of the patterns are found in t
Hits(res, t) == Cardinality({i \in DOMAIN res : search(res[i], t)})

\* Emit as it would be if the blank line did not wait for a first result
EmitBlankFirst(a, o, nresults, line) ==
    (IF a.doublespace THEN o \o << <<>> >> ELSE o) \o <<RStrip(line, WhiteSpace)>>

\* lines 221-223: the output after printing a matched line
Emit(a, o, nresults, line) ==
    (IF a.doublespace /\ nresults # 0 THEN o \o << <<>> >> ELSE o)
        \o <<RStrip(line, WhiteSpace)>>

\* lines 210-224: one turn of the loop over the lines, on the scan state
\* st = [found, results, out, exc]
ScanLine(a, res, st, line) ==
    LET t == Comparison(a, line)
        n == IF t.exc # "" THEN 0 ELSE Hits(res, t.val)
    IN  IF t.exc # "" THEN [st EXCEPT !.exc = t.exc]
        ELSE IF n = 0 THEN st
        ELSE [found |-> st.found + n,
              results |-> st.results + 1,
              out |-> Emit(a, st.out, st.results, line),
              exc |-> ""]

\* lines 225-226: the diagnostic names word, which no scope of lookup
\* binds (the comprehensions' word is local to them): NameError
Diagnostic(a, st) ==
    IF st.found = 0 /\ a.verbose THEN [st EXCEPT !.exc = "NameError"] ELSE st

RECURSIVE Scan(_, _, _, _)
Scan(a, res, st, k) ==
    IF st.exc # "" THEN st
    ELSE IF k > Len(a.dictionary) THEN Diagnostic(a, st)
    ELSE Scan(a, res, ScanLine(a, res, st, a.dictionary[k]), k + 1)

\* the whole call: what it printed and the exception it raised, if any
lookup(a) ==
    LET ws == LookupWords(a)
        st0 == [found |-> 0, results |-> 0, out |-> <<>>, exc |-> ws.exc]
    IN  Scan(a, [i \in DOMAIN ws.val |-> Pattern(a, ws.val[i])], st0, 1)

-----------------------------------------------------------------------------
(* The inputs of the checks *)

\* the longest query word of SpecReverse
MaxWordLen == 2

\* the longest query word of SpecWildcard
MaxWildLen == 3

\* the longest dictionary
MaxLines == 2

\* all sequences over S of length lo..hi
SeqsOf(S, lo, hi) == UNION {[1..n -> S] : n \in lo..hi}

\* the dictionaries of at most hi lines of S, no line twice
DistinctLines(S, hi) ==
    {d \in SeqsOf(S, 0, hi) : \A i, j \in 1..Len(d) : i # j => d[i] # d[j]}

\* the language codes given to lookup: one per class
Codes == {"ind", "eng", "jbo", "epo", "spa"}

Flags ==
    [phrase : BOOLEAN, reverse : BOOLEAN, normalize : BOOLEAN,
     verbose : BOOLEAN, doublespace : BOOLEAN]

\* arguments of lookup; asciify is the default or, as main passes it, the
\* asciify of the language
Arguments(queries, dictionaries, flags) ==
    UNION {{[words |-> w, lang |-> c, dictionary |-> d, asciify |-> f,
             phrase |-> o.phrase, reverse |-> o.reverse, normalize |-> o.normalize,
             verbose |-> o.verbose, doublespace |-> o.doublespace] :
                w \in queries, d \in dictionaries,
                f \in {"lambda", LANG[c]}, o \in flags} : c \in Codes}

\* the queries of Spec: a plain word, a word with an accented letter, a
\* wildcard, two words of which one, both or none may match
Queries ==
    { << <<"a">> >>,
      << <<"ccirc", "a">> >>,
      << <<"a", "*">>, <<"x">> >> }

\* the lines of Spec's dictionaries: a headword with a full stop and an
\* upper-case letter, a line ending in white space, an upper-case accented
\* headword, a line without "/"
Lines ==
    { <<"A", ".", " ", "/", "a", " ", "x", " ">>,
      <<"Ccirc", "a", " ", "/", "ccirc">>,
      <<"x", " ", "a">> }

\* the characters of SpecReverse's query words, and its lines
ReverseChars == {"a", "C", "x", "h", "'"}

ReverseLines ==
    { <<"Ccirc", "a", " ", "/", "c", "x">>,
      <<"a", "'", " ", "/", "ccirc", "h">>,
      <<"aacute", "x", " ", "/", "A", "C">> }

\* the characters of SpecWildcard's query words, and its lines
WildChars == {"a", "u", "*"}

WildLines ==
    { <<"a", " ", "/", "x">>,
      <<"A", "i", ".", " ", "/", "a">>,
      <<"a", "u", "a", " ", "#", "1", " ", "/", "u">> }

NoArgs ==
    [WORD |-> <<>>, language |-> "epo", literal |-> FALSE, phrase |-> FALSE,
     reverse |-> FALSE, normalize |-> FALSE, verbose |-> FALSE,
     doublespace |-> FALSE, interactive |-> FALSE]

NoCall ==
    [words |-> <<>>, lang |-> "epo", dictionary |-> <<>>, asciify |-> "lambda",
     phrase |-> FALSE, reverse |-> FALSE, normalize |-> FALSE,
     verbose |-> FALSE, doublespace |-> FALSE]

NoOpts ==
    [asciify |-> "lambda", phrase |-> FALSE, reverse |-> FALSE,
     normalize |-> FALSE, verbose |-> FALSE]

-----------------------------------------------------------------------------
(* One call of lookup, line by line *)

InitLookup(arguments) ==
    /\ call \in arguments
    /\ pc = "start"
    /\ words = <<>>
    /\ regexs = <<>>
    /\ pos = 0
    /\ found = 0
    /\ results = 0
    /\ out = <<>>
    /\ exc = ""
    /\ args = NoArgs
    /\ lang = call.lang
    /\ opts = NoOpts
    /\ text = <<>>

\* lines 193-208: the words, the patterns, the counters
Prepare ==
    /\ pc = "start"
    /\ \E ws \in {LookupWords(call)} :
           /\ words' = ws.val
           /\ regexs' = [i \in DOMAIN ws.val |-> Pattern(call, ws.val[i])]
           /\ exc' = ws.exc
           /\ pc' = IF ws.exc # "" THEN "raised" ELSE "scan"
    /\ found' = 0
    /\ results' = 0
    /\ UNCHANGED <<call, pos, out, args, lang, opts, text>>

\* lines 210-224: the next line of the dictionary
ReadLine ==
    /\ pc = "scan"
    /\ pos < Len(call.dictionary)
    /\ \E st \in {ScanLine(call, regexs,
                          [found |-> found, results |-> results, out |-> out, exc |-> exc],
                          call.dictionary[pos + 1])} :
           /\ found' = st.found
           /\ results' = st.results
           /\ out' = st.out
           /\ exc' = st.exc
           /\ pc' = IF st.exc # "" THEN "raised" ELSE "scan"
    /\ pos' = pos + 1
    /\ UNCHANGED <<call, words, regexs, args, lang, opts, text>>

\* lines 225-226: the end of the file
Finish ==
    /\ pc = "scan"
    /\ pos = Len(call.dictionary)
    /\ \E st \in {Diagnostic(call, [found |-> found, results |-> results,
                                      out |-> out, exc |-> exc])} :
           /\ exc' = st.exc
           /\ pc' = IF st.exc # "" THEN "raised" ELSE "returned"
    /\ UNCHANGED <<call, words, regexs, pos, found, results, out, args, lang, opts, text>>

Next == Prepare \/ ReadLine \/ Finish

\* lookup with any options, on the queries and lines above
Init == InitLookup(Arguments(Queries, SeqsOf(Lines, 0, MaxLines), Flags))

Spec == Init /\ [][Next]_vars

\* lookup of one word in descriptions
InitReverse ==
    InitLookup(Arguments(SeqsOf(SeqsOf(ReverseChars, 0, MaxWordLen), 1, 1),
                         DistinctLines(ReverseLines, MaxLines),
                         {o \in Flags : o.reverse /\ ~o.normalize /\ ~o.phrase /\ ~o.doublespace}))

SpecReverse == InitReverse /\ [][Next]_vars

\* lookup of one word, wildcards among its characters, in headwords
InitWildcard ==
    InitLookup(Arguments(SeqsOf(SeqsOf(WildChars, 0, MaxWildLen), 1, 1),
                         DistinctLines(WildLines, MaxLines),
                         {o \in Flags : ~o.reverse /\ ~o.phrase /\ ~o.verbose /\ ~o.doublespace}))

SpecWildcard == InitWildcard /\ [][Next]_vars

-----------------------------------------------------------------------------
(* main(): the command line given as args (--list unset, --output "-",     *)
(* --dictionary unset), then the interactive loop.  A call of lookup is    *)
(* one step; call keeps its arguments, out collects what was printed.      *)

\* the longest interactive session, in lines read
MaxInputs == 3

\* the path attribute of each class (getdic joins it to the script's folder)
path(cls) ==
    CASE cls = "Bahasa_Indonesia" -> "ind.dic"
      [] cls = "English"          -> "eng.dic"
      [] cls = "Lojban"           -> "jbo.dic"
      [] cls = "Esperanto"        -> "epo.dic"
      [] cls = "Espanol"          -> "spa.dic"

\* the dictionary files installed beside the script
Files ==
    [f \in {"ind.dic", "eng.dic", "jbo.dic", "epo.dic", "spa.dic"} |->
        CASE f = "epo.dic" -> << <<"Ccirc", "a", " ", "/", "ccirc">>,
                                 <<"A", ".", " ", "/", "a", " ", "x", " ">> >>
          [] f = "jbo.dic" -> << <<"a", " ", "/", "x">>, <<"x", " ", "/", "a">> >>
          [] OTHER         -> << <<"a", " ", "/", "x">> >>]

\* getdic(lang): the lines of the dictionary of the language
getdic(code) == Files[path(LANG[code])]

\* the spelling of each language code
CodeText ==
    [c \in DOMAIN LANG |->
        CASE c = "id" -> <<"i", "d">>     [] c = "ind" -> <<"i", "n", "d">>
          [] c = "en" -> <<"e", "n">>     [] c = "eng" -> <<"e", "n", "g">>
          [] c = "jbo" -> <<"j", "b", "o">>
          [] c = "eo" -> <<"e", "o">>     [] c = "epo" -> <<"e", "p", "o">>
          [] c = "es" -> <<"e", "s">>     [] c = "spa" -> <<"s", "p", "a">>]

\* dolookup, lines 262-275: the words between quotes joined into one
RECURSIVE JoinQuoted(_, _, _)
JoinQuoted(ws, wl, q) ==
    IF ws = <<>> THEN wl
    ELSE LET w == Head(ws)
         IN  IF q # ""
             THEN LET closes == w # <<>> /\ w[Len(w)] = q
                      w1 == IF closes THEN SubSeq(w, 1, Len(w) - 1) ELSE w
                  IN  JoinQuoted(Tail(ws),
                                 [wl EXCEPT ![Len(wl)] = @ \o <<" ">> \o w1],
                                 IF closes THEN "" ELSE q)
             ELSE LET opens == w # <<>> /\ w[1] \in {"\"", "'"}
                  IN  JoinQuoted(Tail(ws),
                                 Append(wl, IF opens THEN Tail(w) ELSE w),
                                 IF opens THEN w[1] ELSE "")

\* dolookup, lines 276-278: the arguments lookup is called with
dolookup(ws, code, o, doublespace) ==
    [words |-> JoinQuoted(ws, <<>>, ""), lang |-> code, dictionary |-> getdic(code),
     asciify |-> o.asciify, phrase |-> o.phrase, reverse |-> o.reverse,
     normalize |-> o.normalize, verbose |-> o.verbose, doublespace |-> doublespace]

\* lines 285-287: the help printed in the interactive loop
HelpLines == << <<"E", "n", "t", "e", "r">>, <<"-", "W", "O", "R", "D">>, <<"?">> >>

\* the command lines: WORD, the language, the options
CommandLines ==
    [WORD : {<<>>, << <<"a">> >>}, language : {"epo", "jbo"},
     literal : BOOLEAN, phrase : BOOLEAN, reverse : BOOLEAN, normalize : {FALSE},
     verbose : BOOLEAN, doublespace : BOOLEAN, interactive : BOOLEAN]

\* the lines typed at the prompt
InputLines ==
    { <<>>, <<"q">>, <<"?">>, <<"j", "b", "o">>, <<"e", "o">>,
      <<"a">>, <<"-", "a">>, <<"-", "-", "x", " ", "a">>, <<"'", "a", " ", "x", "'">> }

InitMain ==
    /\ args \in CommandLines
    /\ pc = "main"
    /\ call = NoCall
    /\ words = <<>>
    /\ regexs = <<>>
    /\ pos = 0
    /\ found = 0
    /\ results = 0
    /\ out = <<>>
    /\ exc = ""
    /\ lang = args.language
    /\ opts = NoOpts
    /\ text = <<>>

\* lines 237-279: the options, then the lookup of the words of the command line
Start ==
    /\ pc = "main"
    /\ LET o == [asciify |-> IF args.literal THEN "lambda" ELSE LANG[lang],
                 phrase |-> args.phrase, reverse |-> args.reverse,
                 normalize |-> args.normalize, verbose |-> args.verbose]
           a == dolookup(args.WORD, lang, o, args.doublespace)
       IN  \E r \in {lookup(a)} :
           /\ opts' = o
           /\ call' = a
           /\ out' = out \o r.out
           /\ exc' = r.exc
           /\ pc' = IF r.exc # "" THEN "raised"
                    ELSE IF args.interactive THEN "prompt" ELSE "exit"
    /\ UNCHANGED <<words, regexs, pos, found, results, args, lang, text>>

\* line 281 at the end of the input: input() raises EOFError
EndOfInput ==
    /\ pc = "prompt"
    /\ pc' = "raised"
    /\ exc' = "EOFError"
    /\ UNCHANGED <<call, words, regexs, pos, found, results, out, args, lang, opts, text>>

\* lines 281-283: an empty line, q, quit or bye ends the loop
ReadQuit ==
    /\ pc = "prompt"
    /\ pos < MaxInputs
    /\ \E l \in InputLines :
        /\ l = <<>> \/ Lower(l) \in {<<"q">>, <<"q", "u", "i", "t">>, <<"b", "y", "e">>}
        /\ text' = l
    /\ pos' = pos + 1
    /\ pc' = "exit"
    /\ UNCHANGED <<call, words, regexs, found, results, out, exc, args, lang, opts>>

\* lines 284-288: ? or help
ReadHelp ==
    /\ pc = "prompt"
    /\ pos < MaxInputs
    /\ \E l \in InputLines :
        /\ Lower(l) \in {<<"?">>, <<"h", "e", "l", "p">>}
        /\ text' = l
    /\ pos' = pos + 1
    /\ out' = out \o HelpLines
    /\ UNCHANGED <<pc, call, words, regexs, found, results, exc, args, lang, opts>>

\* lines 289-292: a language code switches the language
ReadLanguage ==
    /\ pc = "prompt"
    /\ pos < MaxInputs
    /\ \E l \in InputLines :
        /\ \E c \in DOMAIN LANG : CodeText[c] = l
        /\ text' = l
        /\ lang' = CHOOSE c \in DOMAIN LANG : CodeText[c] = l
    /\ pos' = pos + 1
    /\ UNCHANGED <<pc, call, words, regexs, found, results, out, exc, args, opts>>

\* lines 293-297: any other line is a query
ReadQuery ==
    /\ pc = "prompt"
    /\ pos < MaxInputs
    /\ \E l \in InputLines :
        /\ l # <<>>
        /\ Lower(l) \notin {<<"q">>, <<"q", "u", "i", "t">>, <<"b", "y", "e">>,
                            <<"?">>, <<"h", "e", "l", "p">>}
        /\ \A c \in DOMAIN LANG : CodeText[c] # l
        /\ LET dash == l[1] = "-"
               o == IF dash THEN [opts EXCEPT !.reverse = ~opts.reverse] ELSE opts
               ws == IF dash THEN LStrip(l, {"-"}) ELSE l
               a == dolookup(Split(ws), lang, o, args.doublespace)
           IN  \E r \in {lookup(a)} :
               /\ text' = l
               /\ call' = a
               /\ out' = out \o r.out
               /\ exc' = r.exc
               /\ pc' = IF r.exc # "" THEN "raised" ELSE "prompt"
               /\ opts' = IF r.exc # "" THEN o ELSE [o EXCEPT !.reverse = FALSE]
    /\ pos' = pos + 1
    /\ UNCHANGED <<words, regexs, found, results, args, lang>>

NextMain == Start \/ EndOfInput \/ ReadQuit \/ ReadHelp \/ ReadLanguage \/ ReadQuery

SpecMain == InitMain /\ [][NextMain]_vars

-----------------------------------------------------------------------------
(* The text transforms of the Language classes, one call at a time: call   *)
(* keeps the text given (call.words[1]) and the language, text is the      *)
(* value returned.                                                         *)

\* the longest text
MaxTextLen == 2

\* the characters of the texts: the six accented letters of Esperanto, the
\* letters its digraphs are written with, some other letters, the wildcard
TextChars ==
    {"ccirc", "gcirc", "hcirc", "jcirc", "scirc", "ubreve",
     "c", "g", "h", "j", "s", "u", "x", "a", "i", "k", "*"}

InitText ==
    /\ \E s \in SeqsOf(TextChars, 0, MaxTextLen), c \in Codes :
        /\ call = [NoCall EXCEPT !.words = <<s>>, !.lang = c]
        /\ text = s
        /\ lang = c
    /\ pc = "text"
    /\ words = <<>>
    /\ regexs = <<>>
    /\ pos = 0
    /\ found = 0
    /\ results = 0
    /\ out = <<>>
    /\ exc = ""
    /\ args = NoArgs
    /\ opts = NoOpts

Transform(from, to, value) ==
    /\ pc = from
    /\ pc' = to
    /\ text' = value
    /\ UNCHANGED <<call, words, regexs, pos, found, results, out, exc, args, lang, opts>>

Decompose == Transform("text", "decomposed", decompose(LANG[lang], text))

Compose == Transform("decomposed", "composed", compose(LANG[lang], text))

AsciifyText == Transform("text", "asciified", asciify(LANG[lang], text))

Normalize ==
    /\ pc = "text"
    /\ \E r \in {normalize(LANG[lang], text)} :
           /\ text' = r.val
           /\ exc' = r.exc
           /\ pc' = IF r.exc # "" THEN "raised" ELSE "normalized"
    /\ UNCHANGED <<call, words, regexs, pos, found, results, out, args, lang, opts>>

NextText == Decompose \/ Compose \/ AsciifyText \/ Normalize

SpecText == InitText /\ [][NextText]_vars

-----------------------------------------------------------------------------
(* The claims *)

\* the call of lookup has ended, by return or by an exception
Ended == pc \in {"returned", "raised"}

\* lookup has printed the dictionary line l
Emits(o, l) == RStrip(l, WhiteSpace) \in Range(o)

\* the dictionary lines among the printed lines o (the others are blank)
Printed(o) == Range(o) \ {<<>>}

HasSeparator(l) == \E i \in 1..(Len(l) - 1) : l[i] = " " /\ l[i + 1] = "/"

\* the text of l before its field separator " /"
Headword(l) ==
    SubSeq(l, 1, (CHOOSE i \in 1..(Len(l) - 1) :
                    /\ l[i] = " " /\ l[i + 1] = "/"
                    /\ \A k \in 1..(i - 1) : ~(l[k] = " " /\ l[k + 1] = "/")) - 1)

\* t holds q as a substring, case ignored
ContainsFold(t, q) ==
    \E off \in 0..(Len(t) - Len(q)) :
        \A i \in 1..Len(q) : LowerChar(t[off + i]) = LowerChar(q[i])

HasSlash(l) == Index(l, "/") # -1

\* C1: with reverse, phrase and normalize unset, lookup([W]) emits every
\* line of the dictionary whose headword segment equals W, case ignored
\* (stated of the calls that return)
C1Claim ==
    (pc = "returned" /\ ~call.reverse /\ ~call.phrase /\ ~call.normalize
        /\ Len(call.words) = 1)
    => \A k \in DOMAIN call.dictionary :
         (/\ HasSeparator(call.dictionary[k])
          /\ Lower(Headword(call.dictionary[k])) = Lower(call.words[1]))
         => Emits(out, call.dictionary[k])

\* the characters that are operators in a pattern
Operators == {"*", ".", "^", "$", "+", "?", "{", "}", "[", "]", "\\", "|", "(", ")"}

\* the word as lookup searches it when normalize is unset
QueryForm(a, w) == Asciify(a, compose(LANG[a.lang], Lower(w)))

\* C2 as stated: with reverse set, lookup([W]) emits a line exactly when
\* its asciified text holds W, case ignored
C2Claim ==
    (Ended /\ pos = Len(call.dictionary) /\ call.reverse /\ Len(call.words) = 1)
    => \A k \in DOMAIN call.dictionary :
         Emits(out, call.dictionary[k])
         <=> ContainsFold(Asciify(call, call.dictionary[k]), call.words[1])

\* C2 as amended: with reverse set and normalize unset, for a word W free
\* of "*" and of pattern operators, lookup([W]) emits a line exactly when
\* its asciified text holds, case ignored, W lower-cased, composed and
\* asciified
C2Amended ==
    (Ended /\ pos = Len(call.dictionary) /\ call.reverse /\ ~call.normalize
        /\ Len(call.words) = 1 /\ Range(call.words[1]) \cap Operators = {})
    => \A k \in DOMAIN call.dictionary :
         Emits(out, call.dictionary[k])
         <=> ContainsFold(Asciify(call, call.dictionary[k]),
                          QueryForm(call, call.words[1]))

\* a reverse lookup of a word that compose changes has emitted one of two
\* lines, for an occurrence in the description
C2Witness ==
    /\ pc = "returned" /\ call.reverse /\ ~call.normalize
    /\ Len(call.words) = 1 /\ Len(call.words[1]) = 2
    /\ QueryForm(call, call.words[1]) # Lower(call.words[1])
    /\ Len(call.dictionary) = 2 /\ Len(out) = 1
    /\ \E k \in 1..2 :
        /\ Emits(out, call.dictionary[k])
        /\ ~ContainsFold(Asciify(call, Headword(call.dictionary[k])),
                         QueryForm(call, call.words[1]))

\* C3: with reverse unset, a line without "/" is skipped: lookup ends as
\* it does on the dictionary without such lines, with the same output
C3Claim ==
    (Ended /\ ~call.reverse)
    => LET r == lookup([call EXCEPT !.dictionary = SelectSeq(@, HasSlash)])
       IN  exc = r.exc /\ out = r.out

\* line 226: the diagnostic naming a word
NotFound(w) ==
    <<"E", ":", " ", "'">> \o w
        \o <<"'", " ", "i", "s", " ", "n", "o", "t", " ", "f", "o", "u", "n", "d">>

\* the i-th word of the query matched no line of the dictionary
Unmatched(i) ==
    \A k \in DOMAIN call.dictionary :
        ~search(regexs[i], Comparison(call, call.dictionary[k]).val)

\* C4: with verbose set, once the scan is complete, each word that matched
\* no line has exactly one diagnostic line naming it, and that line is
\* the whole output of a one-word query
C4Claim ==
    (Ended /\ call.verbose /\ pos = Len(call.dictionary)
        /\ exc \notin {"ValueError", "IndexError"})
    => /\ exc = ""
       /\ \A i \in DOMAIN call.words :
            Unmatched(i)
            => /\ Cardinality({k \in DOMAIN out :
                     out[k] \in {NotFound(call.words[i]), NotFound(words[i])}}) = 1
               /\ Len(call.words) = 1 => Len(out) = 1

\* the offset of the first "*" of w
FirstStar(w) == CHOOSE i \in DOMAIN w : w[i] = "*" /\ \A k \in 1..(i - 1) : w[k] # "*"

\* the call with the word cut before its first "*"
PrefixCall == [call EXCEPT !.words = <<SubSeq(@[1], 1, FirstStar(@[1]) - 1)>>]

C6Claim ==
    (Ended /\ ~call.reverse /\ ~call.phrase)
    => Printed(out) \subseteq Printed(lookup([call EXCEPT !.phrase = TRUE]).out)

\* the line l, among those read, matched a pattern
Matched(l) ==
    LET t == Comparison(call, l)
    IN  t.exc = "" /\ \E i \in DOMAIN regexs : search(regexs[i], t.val)

\* the lines ls stripped, a blank line between each two
RECURSIVE DoubleSpaced(_)
DoubleSpaced(ls) ==
    IF ls = <<>> THEN <<>>
    ELSE IF Len(ls) = 1 THEN <<RStrip(ls[1], WhiteSpace)>>
    ELSE <<RStrip(ls[1], WhiteSpace), <<>> >> \o DoubleSpaced(Tail(ls))

\* C7: with doublespace set the output is, at every point of the scan, the
\* matched lines among those read, in file order, each once and stripped,
\* one blank line between each two, none before the first or after the
\* last; a call that returns has read the whole dictionary
C7DoubleSpace ==
    call.doublespace
    => /\ out = DoubleSpaced(SelectSeq(SubSeq(call.dictionary, 1, pos), Matched))
       /\ pc = "returned" => pos = Len(call.dictionary)

\* two lines matched, the first one ending in white space: line, blank, line
C7Witness ==
    /\ pc = "returned" /\ call.doublespace
    /\ Len(call.dictionary) = 2
    /\ Len(out) = 3 /\ out[2] = <<>>
    /\ out[1] # call.dictionary[1] /\ out[1] = RStrip(call.dictionary[1], WhiteSpace)
    /\ out[3] = call.dictionary[2]

AccentedLetters == {"ccirc", "gcirc", "hcirc", "jcirc", "scirc", "ubreve"}

AsciiLetters == {LowerCase[i] : i \in 1..26}

\* C8 as stated: for Esperanto, compose(decompose(s)) = s for a text s of
\* the six accented letters and lower-case ASCII letters
C8Claim ==
    (pc = "composed" /\ LANG[lang] = "Esperanto"
        /\ Range(call.words[1]) \subseteq AccentedLetters \cup AsciiLetters)
    => text = call.words[1]

\* C8 as amended: the same, for the texts s in which no c, g, h, j, s or u
\* is followed by x
C8Amended ==
    (pc = "composed" /\ LANG[lang] = "Esperanto"
        /\ Range(call.words[1]) \subseteq AccentedLetters \cup AsciiLetters
        /\ \A i \in 1..(Len(call.words[1]) - 1) :
             ~(call.words[1][i] \in {"c", "g", "h", "j", "s", "u"}
               /\ call.words[1][i + 1] = "x"))
    => text = call.words[1]

\* an accented letter followed by x went through decompose and compose
C8Witness ==
    /\ pc = "composed" /\ LANG[lang] = "Esperanto"
    /\ Len(call.words[1]) = 2
    /\ call.words[1][1] \in AccentedLetters /\ call.words[1][2] = "x"
    /\ text = call.words[1]

RECURSIVE LeadingStars(_)
LeadingStars(s) == IF s # <<>> /\ s[1] = "*" THEN 1 + LeadingStars(Tail(s)) ELSE 0

RECURSIVE TrailingStars(_)
TrailingStars(s) ==
    IF s # <<>> /\ s[Len(s)] = "*" THEN 1 + TrailingStars(SubSeq(s, 1, Len(s) - 1)) ELSE 0

\* C9: normalize of every language returns, for every word, a word with as
\* many leading and as many trailing "*" as the word given
C9Claim ==
    pc \in {"normalized", "raised"}
    => /\ exc = ""
       /\ LeadingStars(text) = LeadingStars(call.words[1])
       /\ TrailingStars(text) = TrailingStars(call.words[1])

\* C10: the query of every input line that begins with "-" is looked up
\* with reverse true
C10Claim == (text # <<>> /\ text[1] = "-") => call.reverse

====
